---- MODULE Spec2Model ----
(***************************************************************************)
(* render-furigana (index.js): the exported render function, the optional  *)
(* furigana detection, splitNonFuriganaChunks, and draw with its classes   *)
(* Chunk and Line, as a state machine.                                     *)
(*                                                                         *)
(* Lengths are integers that count half pixels, so that halving the        *)
(* difference of two measured widths (Chunk.addPaddingAndCalculateOffsets) *)
(* is exact: the two widths differ by an even number; Px(n) is n pixels.   *)
(* A string is a sequence of glyph names; the drawing surface's            *)
(* measureText is a table of glyph metrics per font.                       *)
(***************************************************************************)
EXTENDS Integers, Sequences, FiniteSets, TLC

VARIABLES
  pc,             \* position of the render call
  text,           \* argument: [type: "undefined" | "string" | "array", value]
  kanjiFont,      \* argument
  furiganaFont,   \* argument
  options,        \* argument: a function from the supplied option names
  kuroshiro,      \* module state: TRUE iff require('kuroshiro') succeeded
  htmlparser,     \* module state: TRUE iff require('htmlparser') succeeded
  results,        \* extractFurigana's result (string path)
  rawChunks,      \* draw's rawChunks
  chunks,         \* draw's chunks
  hairSpaceWidth, \* draw's hairSpaceWidth
  lines,          \* draw's lines; currentLine is the last one
  i,              \* index of the next chunk of the line assignment loop
  canvas,         \* [width, height]
  ctx,            \* the canvas context: [font, fillStyle]
  calls,          \* the calls made on the drawing surface, in order
  converted,      \* number of kuroshiro.convert calls
  error           \* the error the call failed with, "" when none

vars == <<pc, text, kanjiFont, furiganaFont, options, kuroshiro, htmlparser,
          results, rawChunks, chunks, hairSpaceWidth, lines, i, canvas, ctx,
          calls, converted, error>>

-----------------------------------------------------------------------------
(* Bounds *)

MaxChunks == 3
MaxDom == 2
MaxRaw == 3
MaxLongRaw == 2
MaxSplitLen == 3
MaxMeasure == 12
MaxFiller == 3

-----------------------------------------------------------------------------
(* Arithmetic and sequences *)

Px(n) == 2 * n

Half(n) == n \div 2

Max(a, b) == IF a >= b THEN a ELSE b

\* Math.ceil(a / b) for a >= 0 and b > 0
Ceil(a, b) == (a + b - 1) \div b

SeqsUpTo(S, n) == UNION {[1..k -> S] : k \in 0..n}

RECURSIVE Repeat(_, _)
Repeat(c, n) == IF n <= 0 THEN <<>> ELSE <<c>> \o Repeat(c, n - 1)

-----------------------------------------------------------------------------
(* Glyphs and the drawing surface's measurement *)

HAIR_SPACE == "HS"
NEWLINE == "NL"
IDEOGRAPHIC_SPACE == "IS"
SPACE == "SP"

\* The UTF-16 code unit of each glyph name.
CodeUnit(c) ==
  CASE c = "NL" -> 10
    [] c = "SP" -> 32
    [] c = "HS" -> 8202
    [] c = "IS" -> 12288
    [] c = "below" -> 12351
    [] c = "lo" -> 12352
    [] c = "ka" -> 12354
    [] c = "hi" -> 12543
    [] c = "above" -> 12544
    [] OTHER -> 28450

GlyphWidth(font, c) ==
  IF font = "40px"
  THEN CASE c = "NL" -> 0
         [] c = "HS" -> 2
         [] c = "SP" -> 4
         [] OTHER -> 8
  ELSE CASE c = "NL" -> 0
         [] c = "HS" -> 2
         [] c = "SP" -> 2
         [] OTHER -> 6

GlyphAscent(font, c) ==
  IF font = "40px"
  THEN CASE c \in {"NL", "HS", "SP", "IS"} -> 0
         [] c = "ka" -> 12
         [] OTHER -> 14
  ELSE CASE c \in {"NL", "HS", "SP", "IS"} -> 0
         [] c = "ka" -> 6
         [] OTHER -> 8

GlyphDescent(font, c) ==
  IF font = "40px"
  THEN CASE c \in {"NL", "HS", "SP", "IS", "ka"} -> 0
         [] OTHER -> 2
  ELSE CASE c \in {"NL", "HS", "SP", "IS", "ka"} -> 0
         [] OTHER -> 2

RECURSIVE SumWidth(_, _)
SumWidth(font, s) ==
  IF s = <<>> THEN 0 ELSE GlyphWidth(font, Head(s)) + SumWidth(font, Tail(s))

RECURSIVE MaxAscent(_, _)
MaxAscent(font, s) ==
  IF s = <<>> THEN 0 ELSE Max(GlyphAscent(font, Head(s)), MaxAscent(font, Tail(s)))

RECURSIVE MaxDescent(_, _)
MaxDescent(font, s) ==
  IF s = <<>> THEN 0 ELSE Max(GlyphDescent(font, Head(s)), MaxDescent(font, Tail(s)))

\* ctx.measureText(s) under the active font
MeasureText(font, s) ==
  [defined |-> TRUE,
   width |-> SumWidth(font, s),
   actualBoundingBoxAscent |-> MaxAscent(font, s),
   actualBoundingBoxDescent |-> MaxDescent(font, s)]

\* A metrics field that was never assigned.
Undefined ==
  [defined |-> FALSE, width |-> 0,
   actualBoundingBoxAscent |-> 0, actualBoundingBoxDescent |-> 0]

-----------------------------------------------------------------------------
(* class Chunk *)

RECURSIVE ReplaceIdeographicSpaces(_)
ReplaceIdeographicSpaces(s) ==
  IF s = <<>> THEN <<>>
  ELSE (IF Head(s) = IDEOGRAPHIC_SPACE THEN <<SPACE, SPACE>> ELSE <<Head(s)>>)
       \o ReplaceIdeographicSpaces(Tail(s))

NewChunk(kanji, furigana) ==
  [kanji |-> ReplaceIdeographicSpaces(kanji),
   furigana |-> furigana,
   furiganaXOffset |-> 0,
   kanjiMetrics |-> Undefined,
   furiganaMetrics |-> Undefined]

validateMetricsCalculated(chunk) ==
  chunk.kanjiMetrics.defined /\ chunk.furiganaMetrics.defined

ChunkGetWidth(chunk) == Max(chunk.kanjiMetrics.width, chunk.furiganaMetrics.width)

getHeight(metrics) ==
  metrics.actualBoundingBoxAscent + metrics.actualBoundingBoxDescent

getFuriganaHeight(chunk) == getHeight(chunk.furiganaMetrics)

getKanjiHeight(chunk) == getHeight(chunk.kanjiMetrics)

getFuriganaYOffset(chunk) == chunk.furiganaMetrics.actualBoundingBoxAscent

getFuriganaXOffset(chunk) == chunk.furiganaXOffset

\* Math.max((a - b) / 2, 0)
CenterOffset(a, b) == Max(Half(a - b), 0)

\* spacePaddingNeededPerSide with a fault: Math.floor(...) + 1 for Math.ceil(...)
spacePaddingFloorPlusOne(kanjiXOffset, hsw) == (kanjiXOffset \div hsw) + 1

spacePaddingNeededPerSide(kanjiXOffset, hsw) == Ceil(kanjiXOffset, hsw)

addPaddingAndCalculateOffsets(chunk, hsw) ==
  LET kanjiXOffset ==
        CenterOffset(chunk.furiganaMetrics.width, chunk.kanjiMetrics.width)
      fxo == CenterOffset(chunk.kanjiMetrics.width, chunk.furiganaMetrics.width)
      n == spacePaddingNeededPerSide(kanjiXOffset, hsw)
      pad == Repeat(HAIR_SPACE, n)
  IN  IF kanjiXOffset > 0
      THEN [chunk EXCEPT !.furiganaXOffset = fxo,
                         !.kanji = pad \o @ \o pad,
                         !.kanjiMetrics.width = @ + n * 2 * hsw]
      ELSE [chunk EXCEPT !.furiganaXOffset = fxo]

startsWithNewline(chunk) ==
  Len(chunk.kanji) > 0 /\ chunk.kanji[1] = NEWLINE

removeNewlines(chunk) ==
  [chunk EXCEPT !.kanji = SelectSeq(@, LAMBDA c : c # NEWLINE)]

-----------------------------------------------------------------------------
(* class Line; a positioned chunk holds the index of its chunk in chunks *)

NewLine(maxWidth, padding) ==
  [paddingBetweenFuriganaAndKanji |-> padding,
   maxWidth |-> maxWidth,
   widthRemaining |-> maxWidth,
   positionedChunks |-> <<>>,
   furiganaPartHeight |-> 0,
   kanjiPartHeight |-> 0]

\* canAddChunk with a fault: the chunk is compared with the line's whole width
canAddChunkToWholeWidth(line, chunk) == ChunkGetWidth(chunk) <= line.maxWidth

canAddChunk(line, chunk) == ChunkGetWidth(chunk) <= line.widthRemaining

addChunk(line, k, chunk) ==
  [line EXCEPT
     !.widthRemaining = @ - ChunkGetWidth(chunk),
     !.positionedChunks =
        Append(@, [x |-> line.maxWidth - line.widthRemaining, chunk |-> k]),
     !.furiganaPartHeight = Max(@, getFuriganaHeight(chunk)),
     !.kanjiPartHeight = Max(@, getKanjiHeight(chunk))]

LineGetWidth(line) == line.maxWidth - line.widthRemaining

\* getHeight with a fault: the padding is added to every line
LineGetHeightAlwaysPadded(line) ==
  line.furiganaPartHeight + line.kanjiPartHeight + line.paddingBetweenFuriganaAndKanji

LineGetHeight(line) ==
  line.furiganaPartHeight + line.kanjiPartHeight
  + (IF line.furiganaPartHeight # 0 THEN line.paddingBetweenFuriganaAndKanji ELSE 0)

-----------------------------------------------------------------------------
(* extractFurigana and splitNonFuriganaChunks *)

\* One element of the DOM that htmlparser builds from kuroshiro's output: a
\* ruby element (its text children and its rt child), a text element, or
\* any other element.
DomToResult(element) ==
  CASE element.kind = "ruby" ->
         [kanji |-> element.base,
          furigana |-> IF element.rt # element.base THEN element.rt ELSE <<>>]
    [] element.kind = "text" -> [kanji |-> element.raw, furigana |-> <<>>]
    [] OTHER -> [kanji |-> <<>>, furigana |-> <<>>]

DomToResults(dom) == [k \in 1..Len(dom) |-> DomToResult(dom[k])]

\* isKana with a fault: the last code unit of the kana block is left out
isKanaBelowLast(character) ==
  CodeUnit(character) >= CodeUnit("lo") /\ CodeUnit(character) < CodeUnit("hi")

isKana(character) ==
  CodeUnit(character) >= CodeUnit("lo") /\ CodeUnit(character) <= CodeUnit("hi")

\* The inner loop over the characters of one chunk without furigana. acc is
\* [out, open]: newRawChunks, and whether nextNonKanaChunk is defined (it is
\* then the last element of newRawChunks).
RECURSIVE SplitCharacters(_, _)
SplitCharacters(characters, acc) ==
  IF characters = <<>> THEN acc
  ELSE LET character == Head(characters)
           next ==
             IF isKana(character)
             THEN [out |-> Append(acc.out, [kanji |-> <<character>>, furigana |-> <<>>]),
                   open |-> FALSE]
             ELSE IF ~acc.open
                  THEN [out |-> Append(acc.out, [kanji |-> <<character>>, furigana |-> <<>>]),
                        open |-> TRUE]
                  ELSE [out |-> [acc.out EXCEPT ![Len(acc.out)].kanji =
                                   Append(@, character)],
                        open |-> TRUE]
       IN  SplitCharacters(Tail(characters), next)

hasFurigana(chunk) == chunk.furigana # <<>>

RECURSIVE SplitLoop(_, _)
SplitLoop(rest, acc) ==
  IF rest = <<>> THEN acc
  ELSE LET chunk == Head(rest)
       IN  SplitLoop(Tail(rest),
             IF ~hasFurigana(chunk)
             THEN SplitCharacters(chunk.kanji, acc)
             ELSE [out |-> Append(acc.out, chunk), open |-> FALSE])

splitNonFuriganaChunks(cs) == SplitLoop(cs, [out |-> <<>>, open |-> FALSE]).out

-----------------------------------------------------------------------------
(* draw: the options *)

MAX_SAFE_INTEGER == 2000000000

\* options.name || default
Opt(o, name, default) ==
  IF name \in DOMAIN o /\ o[name] # 0 THEN o[name] ELSE default

\* options.name || default, for a colour
OptColor(o, name, default) ==
  IF name \in DOMAIN o /\ o[name] # "" THEN o[name] ELSE default

maxAllowedPaddedWidth == Opt(options, "maxWidthInPixels", Px(1000))
minAllowedPaddedWidth == Opt(options, "minWidthInPixels", 0)
maxAllowedPaddedHeight == Opt(options, "maxHeightInPixels", MAX_SAFE_INTEGER)
minAllowedPaddedHeight == Opt(options, "minHeightInPixels", 0)
leftPadding == Opt(options, "leftPaddingInPixels", Px(10))
rightPadding == Opt(options, "rightPaddingInPixels", Px(10))
topPadding == Opt(options, "topPaddingInPixels", Px(10))
bottomPadding == Opt(options, "bottomPaddingInPixels", Px(10))
paddingBetweenFuriganaAndKanji ==
  Opt(options, "paddingBetweenFuriganaAndKanjiInPixels", Px(3))
paddingBetweenLines == Opt(options, "paddingBetweenLinesInPixels", Px(10))
backgroundColor == OptColor(options, "backgroundColor", "white")
textColor == OptColor(options, "textColor", "black")
maxAllowedUnpaddedWidth == maxAllowedPaddedWidth - leftPadding - rightPadding

-----------------------------------------------------------------------------
(* module.exports and extractFurigana *)

NotAString == "<not a string>"

isString(v) == v # NotAString

\* assert(text): undefined and '' are falsy, every array is truthy
truthy(t) == t.type = "array" \/ (t.type = "string" /\ t.value # "")

\* extractFurigana up to its return: the error it throws, "" when it returns
\* the promise
extractFuriganaThrows(k, h) ==
  IF ~k THEN "Could not load kuroshiro"
  ELSE IF ~h THEN "Could not load htmlparser"
  ELSE ""

\* module.exports with a fault: the libraries are required for every input
exportsOutcomeRequiring(t, k, h) ==
  IF ~truthy(t) THEN [pc |-> "failed", error |-> "No text provided"]
  ELSE IF extractFuriganaThrows(k, h) # ""
       THEN [pc |-> "failed", error |-> extractFuriganaThrows(k, h)]
       ELSE IF t.type = "string"
            THEN [pc |-> "kuroshiroInit", error |-> ""]
            ELSE [pc |-> "draw", error |-> ""]

\* module.exports: where the call goes next, and the error it throws
exportsOutcome(t, k, h) ==
  IF ~truthy(t) THEN [pc |-> "failed", error |-> "No text provided"]
  ELSE IF t.type = "string"
       THEN IF extractFuriganaThrows(k, h) # ""
            THEN [pc |-> "failed", error |-> extractFuriganaThrows(k, h)]
            ELSE [pc |-> "kuroshiroInit", error |-> ""]
       ELSE [pc |-> "draw", error |-> ""]

Render ==
  /\ pc = "call"
  /\ pc' = exportsOutcome(text, kuroshiro, htmlparser).pc
  /\ error' = exportsOutcome(text, kuroshiro, htmlparser).error
  /\ rawChunks' = IF pc' = "draw" THEN text.value ELSE rawChunks
  /\ UNCHANGED <<text, kanjiFont, furiganaFont, options, kuroshiro, htmlparser,
                 results, chunks, hairSpaceWidth, lines, i, canvas, ctx, calls,
                 converted>>

\* kuroshiro.init reported an error: kuroshiroInit is rejected
KuroshiroInitRejected ==
  /\ pc = "kuroshiroInit"
  /\ pc' = "failed"
  /\ error' = "kuroshiro.init"
  /\ UNCHANGED <<text, kanjiFont, furiganaFont, options, kuroshiro, htmlparser,
                 results, rawChunks, chunks, hairSpaceWidth, lines, i, canvas,
                 ctx, calls, converted>>

DomElements ==
  {[kind |-> "ruby", base |-> <<"ji">>, rt |-> <<"ka", "ka", "ka">>],
   [kind |-> "ruby", base |-> <<"ka">>, rt |-> <<"ka">>],
   [kind |-> "text", raw |-> <<"ka", "ji">>],
   [kind |-> "text", raw |-> <<"NL", "ji">>],
   [kind |-> "br"]}

\* the callback of kuroshiroInit.then in extractFurigana
KuroshiroConvert ==
  /\ pc = "kuroshiroInit"
  /\ \E dom \in SeqsUpTo(DomElements, MaxDom) : results' = DomToResults(dom)
  /\ converted' = converted + 1
  /\ pc' = "split"
  /\ UNCHANGED <<text, kanjiFont, furiganaFont, options, kuroshiro, htmlparser,
                 rawChunks, chunks, hairSpaceWidth, lines, i, canvas, ctx,
                 calls, error>>

\* the callback of extractFurigana(text).then in module.exports, up to the
\* call of draw
SplitThen ==
  /\ pc = "split"
  /\ rawChunks' = splitNonFuriganaChunks(results)
  /\ pc' = "draw"
  /\ UNCHANGED <<text, kanjiFont, furiganaFont, options, kuroshiro, htmlparser,
                 results, chunks, hairSpaceWidth, lines, i, canvas, ctx, calls,
                 converted, error>>

-----------------------------------------------------------------------------
(* draw *)

\* the two assertions on the fonts: the message of the one that fails
drawAsserts(kf, ff) ==
  IF ~isString(kf) THEN "No kanji font provided"
  ELSE IF ~isString(ff) THEN "No furigana font provided"
  ELSE ""

DrawBegin ==
  /\ pc = "draw"
  /\ error' = drawAsserts(kanjiFont, furiganaFont)
  /\ IF error' # ""
     THEN pc' = "failed" /\ UNCHANGED <<chunks, canvas>>
     ELSE /\ pc' = "measureKanji"
          /\ chunks' = [k \in 1..Len(rawChunks) |->
                          NewChunk(rawChunks[k].kanji, rawChunks[k].furigana)]
          /\ canvas' = [width |-> 0, height |-> 0]
  /\ UNCHANGED <<text, kanjiFont, furiganaFont, options, kuroshiro, htmlparser,
                 results, rawChunks, hairSpaceWidth, lines, i, ctx, calls,
                 converted>>

MeasureCall(s) == [op |-> "measureText", text |-> s]

FontCall(f) == [op |-> "font", font |-> f]

MeasureKanji ==
  /\ pc = "measureKanji"
  /\ ctx' = [ctx EXCEPT !.font = kanjiFont]
  /\ hairSpaceWidth' = MeasureText(ctx'.font, <<HAIR_SPACE>>).width
  /\ chunks' = [k \in 1..Len(chunks) |->
                  [chunks[k] EXCEPT !.kanjiMetrics = MeasureText(ctx'.font, chunks[k].kanji)]]
  /\ calls' = calls \o <<FontCall(kanjiFont), MeasureCall(<<HAIR_SPACE>>)>>
                \o [k \in 1..Len(chunks) |-> MeasureCall(chunks[k].kanji)]
  /\ pc' = "measureFurigana"
  /\ UNCHANGED <<text, kanjiFont, furiganaFont, options, kuroshiro, htmlparser,
                 results, rawChunks, lines, i, canvas, converted, error>>

MeasureFurigana ==
  /\ pc = "measureFurigana"
  /\ ctx' = [ctx EXCEPT !.font = furiganaFont]
  /\ chunks' = [k \in 1..Len(chunks) |->
                  [chunks[k] EXCEPT
                     !.furiganaMetrics = MeasureText(ctx'.font, chunks[k].furigana)]]
  /\ calls' = calls \o <<FontCall(furiganaFont)>>
                \o [k \in 1..Len(chunks) |-> MeasureCall(chunks[k].furigana)]
  /\ pc' = "pad"
  /\ UNCHANGED <<text, kanjiFont, furiganaFont, options, kuroshiro, htmlparser,
                 results, rawChunks, hairSpaceWidth, lines, i, canvas, converted,
                 error>>

AddPadding ==
  /\ pc = "pad"
  /\ IF \A k \in 1..Len(chunks) : validateMetricsCalculated(chunks[k])
     THEN /\ chunks' = [k \in 1..Len(chunks) |->
                          addPaddingAndCalculateOffsets(chunks[k], hairSpaceWidth)]
          /\ pc' = "lines"
          /\ error' = error
     ELSE /\ pc' = "failed"
          /\ error' = "Metrics not yet calculated"
          /\ chunks' = chunks
  /\ UNCHANGED <<text, kanjiFont, furiganaFont, options, kuroshiro, htmlparser,
                 results, rawChunks, hairSpaceWidth, lines, i, canvas, ctx, calls,
                 converted>>

FirstLine ==
  /\ pc = "lines"
  /\ lines' = <<NewLine(maxAllowedUnpaddedWidth, paddingBetweenFuriganaAndKanji)>>
  /\ i' = 1
  /\ pc' = IF Len(chunks) = 0 THEN "size" ELSE "assign"
  /\ UNCHANGED <<text, kanjiFont, furiganaFont, options, kuroshiro, htmlparser,
                 results, rawChunks, chunks, hairSpaceWidth, canvas, ctx, calls,
                 converted, error>>

\* the condition of the if in the line assignment loop
opensLine(currentLine, chunk) ==
  ~canAddChunk(currentLine, chunk) \/ startsWithNewline(chunk)

\* openLine with a fault: the new line takes the current line's place in lines
openLineInPlace(ls, line) == [ls EXCEPT ![Len(ls)] = line]

\* currentLine = new Line(...); lines.push(currentLine)
openLine(ls, line) == Append(ls, line)

\* one iteration of the line assignment loop
AssignChunk ==
  /\ pc = "assign"
  /\ LET chunk == chunks[i]
         opened ==
           IF opensLine(lines[Len(lines)], chunk)
           THEN openLine(lines,
                  NewLine(maxAllowedUnpaddedWidth, paddingBetweenFuriganaAndKanji))
           ELSE lines
     IN  /\ chunks' = [chunks EXCEPT ![i] = removeNewlines(chunk)]
         /\ lines' = [opened EXCEPT
                        ![Len(opened)] = addChunk(@, i, removeNewlines(chunk))]
  /\ i' = i + 1
  /\ pc' = IF i = Len(chunks) THEN "size" ELSE "assign"
  /\ UNCHANGED <<text, kanjiFont, furiganaFont, options, kuroshiro, htmlparser,
                 results, rawChunks, hairSpaceWidth, canvas, ctx, calls,
                 converted, error>>

\* the loop that adds every line's height and the padding after it
RECURSIVE SumHeights(_, _)
SumHeights(ls, between) ==
  IF ls = <<>> THEN 0
  ELSE LineGetHeight(Head(ls)) + between + SumHeights(Tail(ls), between)

totalHeight(ls) ==
  SumHeights(ls, paddingBetweenLines) - paddingBetweenLines
  + topPadding + bottomPadding

RECURSIVE WidestLine(_)
WidestLine(ls) ==
  IF ls = <<>> THEN 0 ELSE Max(LineGetWidth(Head(ls)), WidestLine(Tail(ls)))

maxWidth(ls) == WidestLine(ls) + leftPadding + rightPadding

PageSize ==
  /\ pc = "size"
  /\ canvas' = [width |-> maxWidth(lines), height |-> totalHeight(lines)]
  /\ ctx' = [ctx EXCEPT !.fillStyle = backgroundColor]
  /\ calls' = Append(calls, [op |-> "fillRect", style |-> backgroundColor,
                              width |-> canvas'.width, height |-> canvas'.height])
  /\ pc' = "drawFurigana"
  /\ UNCHANGED <<text, kanjiFont, furiganaFont, options, kuroshiro, htmlparser,
                 results, rawChunks, chunks, hairSpaceWidth, lines, i, converted,
                 error>>

FillTextCall(s, x, y) == [op |-> "fillText", text |-> s, x |-> x, y |-> y]

\* drawFurigana with a fault: the chunk's position in its line is left out
drawFuriganaAtLineStart(line, xOffset, yOffset) ==
  [m \in 1..Len(line.positionedChunks) |->
     LET chunk == chunks[line.positionedChunks[m].chunk]
     IN  [op |-> "fillText", text |-> chunk.furigana,
          x |-> xOffset + getFuriganaXOffset(chunk),
          y |-> yOffset + getFuriganaYOffset(chunk)]]

\* Line.drawFurigana: its fillText calls
drawFurigana(line, xOffset, yOffset) ==
  [m \in 1..Len(line.positionedChunks) |->
     LET positionedChunk == line.positionedChunks[m]
         chunk == chunks[positionedChunk.chunk]
     IN  FillTextCall(chunk.furigana,
                      xOffset + positionedChunk.x + getFuriganaXOffset(chunk),
                      yOffset + getFuriganaYOffset(chunk))]

RECURSIVE kanjiString(_)
kanjiString(positionedChunks) ==
  IF positionedChunks = <<>> THEN <<>>
  ELSE chunks[Head(positionedChunks).chunk].kanji
       \o kanjiString(Tail(positionedChunks))

\* Line.drawKanji: its measureText and fillText calls
drawKanji(line, font, xOffset, yOffset) ==
  LET str == kanjiString(line.positionedChunks)
      kanjiStringMetrics == MeasureText(font, str)
  IN  <<MeasureCall(str),
        FillTextCall(str, xOffset,
                     yOffset + kanjiStringMetrics.actualBoundingBoxAscent
                     + line.furiganaPartHeight + line.paddingBetweenFuriganaAndKanji)>>

RECURSIVE FuriganaPass(_, _)
FuriganaPass(ls, yOffset) ==
  IF ls = <<>> THEN <<>>
  ELSE drawFurigana(Head(ls), leftPadding, yOffset)
       \o FuriganaPass(Tail(ls), yOffset + LineGetHeight(Head(ls)) + paddingBetweenLines)

RECURSIVE KanjiPass(_, _, _)
KanjiPass(ls, font, yOffset) ==
  IF ls = <<>> THEN <<>>
  ELSE drawKanji(Head(ls), font, leftPadding, yOffset)
       \o KanjiPass(Tail(ls), font,
                    yOffset + LineGetHeight(Head(ls)) + paddingBetweenLines)

DrawFuriganaPass ==
  /\ pc = "drawFurigana"
  /\ ctx' = [ctx EXCEPT !.fillStyle = textColor]
  /\ calls' = calls \o FuriganaPass(lines, topPadding)
  /\ pc' = "drawKanji"
  /\ UNCHANGED <<text, kanjiFont, furiganaFont, options, kuroshiro, htmlparser,
                 results, rawChunks, chunks, hairSpaceWidth, lines, i, canvas,
                 converted, error>>

DrawKanjiPass ==
  /\ pc = "drawKanji"
  /\ ctx' = [ctx EXCEPT !.font = kanjiFont]
  /\ calls' = calls \o <<FontCall(kanjiFont)>> \o KanjiPass(lines, ctx'.font, topPadding)
  /\ pc' = "toBuffer"
  /\ UNCHANGED <<text, kanjiFont, furiganaFont, options, kuroshiro, htmlparser,
                 results, rawChunks, chunks, hairSpaceWidth, lines, i, canvas,
                 converted, error>>

\* canvas.toBuffer calls back with the buffer
ToBufferFulfilled ==
  /\ pc = "toBuffer"
  /\ pc' = "done"
  /\ UNCHANGED <<text, kanjiFont, furiganaFont, options, kuroshiro, htmlparser,
                 results, rawChunks, chunks, hairSpaceWidth, lines, i, canvas,
                 ctx, calls, converted, error>>

\* canvas.toBuffer calls back with an error
ToBufferRejected ==
  /\ pc = "toBuffer"
  /\ pc' = "failed"
  /\ error' = "toBuffer"
  /\ UNCHANGED <<text, kanjiFont, furiganaFont, options, kuroshiro, htmlparser,
                 results, rawChunks, chunks, hairSpaceWidth, lines, i, canvas,
                 ctx, calls, converted>>

-----------------------------------------------------------------------------
(* The calls of the render function that are explored *)

Pair(kanji, furigana) == [kanji |-> kanji, furigana |-> furigana]

\* the {kanji, furigana} pairs a caller passes; furigana <<>> is an absent or
\* empty furigana
RawChunkKinds ==
  {Pair(<<"ji">>, <<>>),
   Pair(<<"ji">>, <<"ka">>),
   Pair(<<"ji">>, <<"ka", "ka", "ka">>),
   Pair(<<"NL", "ji">>, <<>>),
   Pair(<<"NL", "ji">>, <<"ka", "ka", "ka">>),
   Pair(<<"ka">>, <<>>),
   Pair(<<"ji", "ji">>, <<"ji">>),
   Pair(<<"IS">>, <<>>)}

ArrayText(pairs) == [type |-> "array", value |-> pairs]

StringText(s) == [type |-> "string", value |-> s]

UndefinedText == [type |-> "undefined", value |-> <<>>]

\* options that set one option, or none
OptionValues(name) ==
  CASE name = "maxWidthInPixels" -> {0, Px(10), Px(28), Px(30)}
    [] name = "minWidthInPixels" -> {0, Px(100)}
    [] name = "maxHeightInPixels" -> {0, Px(20)}
    [] name = "minHeightInPixels" -> {0, Px(200)}
    [] name = "paddingBetweenFuriganaAndKanjiInPixels" -> {0, Px(1)}
    [] name = "paddingBetweenLinesInPixels" -> {0, Px(2)}
    [] name \in {"backgroundColor", "textColor"} -> {"", "red"}
    [] OTHER -> {0, Px(4)}

OptionNames ==
  {"maxWidthInPixels", "minWidthInPixels", "maxHeightInPixels",
   "minHeightInPixels", "leftPaddingInPixels", "rightPaddingInPixels",
   "topPaddingInPixels", "bottomPaddingInPixels",
   "paddingBetweenFuriganaAndKanjiInPixels", "paddingBetweenLinesInPixels",
   "backgroundColor", "textColor"}

NoOptions == [name \in {} |-> 0]

OneOption ==
  UNION {{name :> v : v \in OptionValues(name)} : name \in OptionNames}

WidthOptions == {("maxWidthInPixels" :> v) : v \in OptionValues("maxWidthInPixels")}

Start ==
  /\ pc = "call"
  /\ results = <<>>
  /\ rawChunks = <<>>
  /\ chunks = <<>>
  /\ hairSpaceWidth = 0
  /\ lines = <<>>
  /\ i = 0
  /\ canvas = [width |-> 0, height |-> 0]
  /\ ctx = [font |-> "10px sans-serif", fillStyle |-> "#000000"]
  /\ calls = <<>>
  /\ converted = 0
  /\ error = ""

\* pairs of every kind under the options that decide the wrapping
InitLayout ==
  /\ text \in {ArrayText(pairs) : pairs \in SeqsUpTo(RawChunkKinds, MaxChunks)}
  /\ options \in {NoOptions} \cup WidthOptions
  /\ kanjiFont = "40px"
  /\ furiganaFont = "20px"
  /\ kuroshiro = TRUE
  /\ htmlparser = TRUE

\* every kind of input, font and option, with and without the optional
\* libraries
InitBoundary ==
  /\ text \in {UndefinedText, StringText(""), StringText("aotoaka")}
              \cup {ArrayText(pairs) :
                      pairs \in SeqsUpTo({Pair(<<"ji">>, <<"ka">>),
                                          Pair(<<"NL", "ji">>, <<>>)}, 2)}
  /\ options \in {NoOptions} \cup OneOption
  /\ kanjiFont \in {"40px", NotAString}
  /\ furiganaFont \in {"20px", NotAString}
  /\ kuroshiro \in BOOLEAN
  /\ htmlparser \in BOOLEAN

Init == Start /\ (InitLayout \/ InitBoundary)

Next ==
  \/ Render
  \/ KuroshiroInitRejected
  \/ KuroshiroConvert
  \/ SplitThen
  \/ DrawBegin
  \/ MeasureKanji
  \/ MeasureFurigana
  \/ AddPadding
  \/ FirstLine
  \/ AssignChunk
  \/ PageSize
  \/ DrawFuriganaPass
  \/ DrawKanjiPass
  \/ ToBufferFulfilled
  \/ ToBufferRejected

Spec == Init /\ [][Next]_vars

-----------------------------------------------------------------------------
(* addPaddingAndCalculateOffsets on its own: one chunk with any two measured *)
(* widths and any hair space width                                           *)

InitPad ==
  /\ pc = "pad"
  /\ text = ArrayText(<<Pair(<<"ji">>, <<"ka">>)>>)
  /\ options = NoOptions
  /\ kanjiFont = "40px"
  /\ furiganaFont = "20px"
  /\ kuroshiro = TRUE
  /\ htmlparser = TRUE
  /\ results = <<>>
  /\ rawChunks = text.value
  /\ \E B \in 0..MaxMeasure, A \in 0..MaxMeasure :
       /\ (B - A) % 2 = 0
       /\ chunks = <<[NewChunk(<<"ji">>, <<"ka">>) EXCEPT
                        !.kanjiMetrics = [MeasureText("40px", <<"ji">>) EXCEPT !.width = B],
                        !.furiganaMetrics = [MeasureText("20px", <<"ka">>) EXCEPT !.width = A]]>>
  /\ hairSpaceWidth \in 1..MaxFiller
  /\ lines = <<>>
  /\ i = 0
  /\ canvas = [width |-> 0, height |-> 0]
  /\ ctx = [font |-> "20px", fillStyle |-> "#000000"]
  /\ calls = <<>>
  /\ converted = 0
  /\ error = ""

SpecPad == InitPad /\ [][AddPadding]_vars

-----------------------------------------------------------------------------
(* splitNonFuriganaChunks on its own: any result of extractFurigana *)

\* pairs of at most one character, of every kind of character
ShortPairs ==
  {Pair(s, <<>>) :
     s \in SeqsUpTo({"ji", "ka", "below", "lo", "hi", "above", "NL"}, 1)}
  \cup {Pair(<<"ji">>, <<"ka">>)}

\* pairs of several kanji and kana
LongPairs ==
  {Pair(s, <<>>) : s \in SeqsUpTo({"ji", "ka"}, MaxSplitLen)}
  \cup {Pair(<<"ji">>, <<"ka">>)}

InitSplit ==
  /\ pc = "split"
  /\ text = StringText("aotoaka")
  /\ options = NoOptions
  /\ kanjiFont = "40px"
  /\ furiganaFont = "20px"
  /\ kuroshiro = TRUE
  /\ htmlparser = TRUE
  /\ results \in SeqsUpTo(ShortPairs, MaxRaw) \cup SeqsUpTo(LongPairs, MaxLongRaw)
  /\ rawChunks = <<>>
  /\ chunks = <<>>
  /\ hairSpaceWidth = 0
  /\ lines = <<>>
  /\ i = 0
  /\ canvas = [width |-> 0, height |-> 0]
  /\ ctx = [font |-> "10px sans-serif", fillStyle |-> "#000000"]
  /\ calls = <<>>
  /\ converted = 1
  /\ error = ""

SpecSplit == InitSplit /\ [][SplitThen]_vars

-----------------------------------------------------------------------------
(* Properties *)

\* the line budget: maxWidthInPixels - leftPadding - rightPadding
Budget == maxAllowedPaddedWidth - leftPadding - rightPadding

\* the positions after the line assignment loop
Assigned == pc \in {"size", "drawFurigana", "drawKanji", "toBuffer", "done"}

\* the positions after the page size was set
Sized == pc \in {"drawFurigana", "drawKanji", "toBuffer", "done"}

RECURSIVE OccupiedWidth(_)
OccupiedWidth(positionedChunks) ==
  IF positionedChunks = <<>> THEN 0
  ELSE ChunkGetWidth(chunks[Head(positionedChunks).chunk])
       + OccupiedWidth(Tail(positionedChunks))

SoleOversized(line) ==
  /\ Len(line.positionedChunks) = 1
  /\ ChunkGetWidth(chunks[line.positionedChunks[1].chunk]) > Budget

BaseBeginsWithNewline(k) ==
  Len(rawChunks[k].kanji) > 0 /\ rawChunks[k].kanji[1] = "NL"

\* the index of the line that holds chunk k, 0 when none does
LineOf(k) ==
  IF \E L \in 1..Len(lines) :
       \E m \in 1..Len(lines[L].positionedChunks) :
         lines[L].positionedChunks[m].chunk = k
  THEN CHOOSE L \in 1..Len(lines) :
         \E m \in 1..Len(lines[L].positionedChunks) :
           lines[L].positionedChunks[m].chunk = k
  ELSE 0

RECURSIVE LineChunks(_)
LineChunks(ls) ==
  IF ls = <<>> THEN <<>>
  ELSE [m \in 1..Len(Head(ls).positionedChunks) |-> Head(ls).positionedChunks[m].chunk]
       \o LineChunks(Tail(ls))

\* what draw makes of a pair's kanji before the layout: the chunk's kanji
\* without its hair spaces and newlines
Visible(str) == SelectSeq(str, LAMBDA c : c \notin {"HS", "NL"})

\* C2: the chunks of the lines, line by line and in each line's order, are the
\* chunks assigned so far in input order, each once; after the loop they are
\* all the input pairs, each with its own furigana and kanji.
C2_OrderPreserved ==
  /\ lines # <<>> => LineChunks(lines) = [k \in 1..(i - 1) |-> k]
  /\ Assigned =>
       /\ i - 1 = Len(rawChunks)
       /\ Len(chunks) = Len(rawChunks)
       /\ \A k \in 1..Len(rawChunks) :
            /\ chunks[k].furigana = rawChunks[k].furigana
            /\ Visible(chunks[k].kanji)
                 = Visible(ReplaceIdeographicSpaces(rawChunks[k].kanji))

\* C2 witness: three chunks assigned to two lines, one of them with two chunks
C2_Witness ==
  /\ pc = "done"
  /\ Len(chunks) = 3
  /\ Len(lines) = 2
  /\ \E L \in 1..2 : Len(lines[L].positionedChunks) = 2

\* C3 as stated: a pair whose base text begins with a newline and that follows
\* other chunks is the first chunk of a new line, and its stored base string
\* holds no newline.
C3_ForcedLineBreak ==
  \A k \in 2..Len(chunks) :
    (lines # <<>> /\ k < i /\ BaseBeginsWithNewline(k)) =>
      /\ LineOf(k) > 1
      /\ lines[LineOf(k)].positionedChunks[1].chunk = k
      /\ \A m \in 1..Len(chunks[k].kanji) : chunks[k].kanji[m] # "NL"

\* C4 as stated: the page width lies between minWidthInPixels and
\* maxWidthInPixels and the page height between minHeightInPixels and
\* maxHeightInPixels.
C4_PageClamped ==
  Sized =>
    /\ canvas.width >= Opt(options, "minWidthInPixels", 0)
    /\ canvas.width <= Opt(options, "maxWidthInPixels", Px(1000))
    /\ canvas.height >= Opt(options, "minHeightInPixels", 0)
    /\ canvas.height <= Opt(options, "maxHeightInPixels", MAX_SAFE_INTEGER)

ViolatesPrecondition ==
  \/ text.type = "undefined"
  \/ text.type = "string" /\ text.value = ""
  \/ text.type = "array" /\ text.value = <<>>
  \/ kanjiFont = NotAString
  \/ furiganaFont = NotAString

PreconditionErrors ==
  {"No text provided", "No kanji font provided", "No furigana font provided"}

\* C5 as stated: a call with absent or empty input or with a font that is not
\* a string fails with a precondition error as soon as it is made (the call is
\* past module.exports and, on the pairs path, past draw's assertions), with
\* no measurement and no other work done.
C5_BoundaryPreconditions ==
  (ViolatesPrecondition /\ pc \notin {"call", "draw"}) =>
    /\ pc = "failed"
    /\ error \in PreconditionErrors
    /\ calls = <<>>
    /\ converted = 0

CollaboratorErrors == {"Could not load kuroshiro", "Could not load htmlparser"}

\* C6: with pairs as input neither collaborator is used and no error names one,
\* installed or not: the call only fails on a font assertion or in toBuffer;
\* with a string as input and a collaborator missing the call fails, before any
\* conversion, with the error that names the missing collaborator; an error
\* that names a collaborator arises on the string path only.
C6_OptionalCollaborators ==
  /\ text.type = "array" =>
       /\ converted = 0
       /\ pc \notin {"kuroshiroInit", "split"}
       /\ error \in {"", "No kanji font provided", "No furigana font provided",
                     "toBuffer"}
  /\ (text.type = "string" /\ text.value # "" /\ pc # "call"
      /\ (~kuroshiro \/ ~htmlparser)) =>
       /\ pc = "failed"
       /\ converted = 0
       /\ calls = <<>>
       /\ error = IF ~kuroshiro THEN "Could not load kuroshiro"
                  ELSE "Could not load htmlparser"
  /\ error \in CollaboratorErrors =>
       (text.type = "string" /\ (~kuroshiro \/ ~htmlparser))

\* C6 witness: a render of pairs that completed with both libraries missing
C6_Witness ==
  /\ pc = "done"
  /\ text.type = "array"
  /\ Len(text.value) = 2
  /\ ~kuroshiro
  /\ ~htmlparser

\* C7: addPaddingAndCalculateOffsets, for measured widths B of the base and A
\* of the annotation and a filler width f > 0: the annotation offset is
\* max((B - A) / 2, 0); the padded base width B2 is B plus the smallest
\* multiple of 2 f that makes B2 >= A; the base string gains (B2 - B) / (2 f)
\* fillers on each side, none when A <= B.
C7_Centering ==
  [][(pc = "pad" /\ pc' = "lines") =>
       \A k \in 1..Len(chunks) :
         LET B == chunks[k].kanjiMetrics.width
             A == chunks[k].furiganaMetrics.width
             f == hairSpaceWidth
             B2 == chunks'[k].kanjiMetrics.width
             fillers == Repeat("HS", (B2 - B) \div (2 * f))
         IN  /\ 2 * chunks'[k].furiganaXOffset = (IF B >= A THEN B - A ELSE 0)
             /\ B2 >= B
             /\ (B2 - B) % (2 * f) = 0
             /\ B2 >= A
             /\ B2 > B => B2 - 2 * f < A
             /\ chunks'[k].kanji = fillers \o chunks[k].kanji \o fillers
             /\ A <= B => chunks'[k].kanji = chunks[k].kanji
             /\ chunks'[k].furiganaMetrics = chunks[k].furiganaMetrics]_vars

\* C7 witness: a padded chunk whose base became wider than its annotation by
\* less than two fillers, with two fillers on each side
C7_Witness ==
  /\ pc = "lines"
  /\ hairSpaceWidth = 3
  /\ chunks[1].furiganaMetrics.width = 12
  /\ chunks[1].kanjiMetrics.width = 14
  /\ chunks[1].kanji = <<"HS", "HS", "ji", "HS", "HS">>
  /\ chunks[1].furiganaXOffset = 0

InKanaBlock(c) == CodeUnit(c) >= 12352 /\ CodeUnit(c) <= 12543

\* a pair sequence as the sequence of its annotated pairs and of the characters
\* of its other pairs
RECURSIVE Tokens(_)
Tokens(pairs) ==
  IF pairs = <<>> THEN <<>>
  ELSE (IF Head(pairs).furigana # <<>>
        THEN <<Head(pairs)>>
        ELSE [m \in 1..Len(Head(pairs).kanji) |-> <<Head(pairs).kanji[m]>>])
       \o Tokens(Tail(pairs))

KanaPair(p) ==
  p.furigana = <<>> /\ Len(p.kanji) = 1 /\ InKanaBlock(p.kanji[1])

RunPair(p) ==
  /\ p.furigana = <<>>
  /\ Len(p.kanji) >= 1
  /\ \A m \in 1..Len(p.kanji) : ~InKanaBlock(p.kanji[m])

\* C8: splitNonFuriganaChunks keeps, in input order, every annotated pair as it
\* is and every character of the other pairs; each kana character is a pair of
\* its own, and each maximal run of characters that are not kana, ended by a
\* kana character or by an annotated pair, is one pair.
C8_KanaSplitting ==
  pc = "draw" =>
    /\ Tokens(rawChunks) = Tokens(results)
    /\ \A k \in 1..Len(rawChunks) :
         \/ rawChunks[k].furigana # <<>>
         \/ KanaPair(rawChunks[k])
         \/ RunPair(rawChunks[k])
    /\ \A k \in 1..(Len(rawChunks) - 1) :
         ~(RunPair(rawChunks[k]) /\ RunPair(rawChunks[k + 1]))

\* C8 witness: the unannotated "ABC" with A, B kanji and C kana became the
\* pairs "AB" and "C"
C8_Witness ==
  /\ pc = "draw"
  /\ results = <<Pair(<<"ji", "ji", "ka">>, <<>>)>>
  /\ rawChunks = <<Pair(<<"ji", "ji">>, <<>>), Pair(<<"ka">>, <<>>)>>

HeightOf(metrics) ==
  metrics.actualBoundingBoxAscent + metrics.actualBoundingBoxDescent

RECURSIVE AnnotationHeights(_)
AnnotationHeights(positionedChunks) ==
  IF positionedChunks = <<>> THEN 0
  ELSE Max(HeightOf(chunks[Head(positionedChunks).chunk].furiganaMetrics),
           AnnotationHeights(Tail(positionedChunks)))

RECURSIVE BaseHeights(_)
BaseHeights(positionedChunks) ==
  IF positionedChunks = <<>> THEN 0
  ELSE Max(HeightOf(chunks[Head(positionedChunks).chunk].kanjiMetrics),
           BaseHeights(Tail(positionedChunks)))

AnnotationPartHeight(line) == AnnotationHeights(line.positionedChunks)

BasePartHeight(line) == BaseHeights(line.positionedChunks)

HeightOfLine(line) ==
  AnnotationPartHeight(line) + BasePartHeight(line)
  + (IF AnnotationPartHeight(line) # 0
     THEN Opt(options, "paddingBetweenFuriganaAndKanjiInPixels", Px(3))
     ELSE 0)

RECURSIVE SumOfLineHeights(_)
SumOfLineHeights(ls) ==
  IF ls = <<>> THEN 0 ELSE HeightOfLine(Head(ls)) + SumOfLineHeights(Tail(ls))

\* C9: the page height is topPadding + bottomPadding + the sum of the line
\* heights + (lineCount - 1) * paddingBetweenLines, a line's height being its
\* largest annotation height plus its largest base height, plus
\* paddingBetweenFuriganaAndKanji only when the former is not 0; a line whose
\* chunks all have an empty annotation is as high as its base part, and a page
\* of one line is topPadding + bottomPadding + that line's height high.
C9_PageHeight ==
  Sized =>
    /\ canvas.height
         = Opt(options, "topPaddingInPixels", Px(10))
           + Opt(options, "bottomPaddingInPixels", Px(10))
           + SumOfLineHeights(lines)
           + (Len(lines) - 1) * Opt(options, "paddingBetweenLinesInPixels", Px(10))
    /\ \A L \in 1..Len(lines) :
         /\ LineGetHeight(lines[L]) = HeightOfLine(lines[L])
         /\ (\A m \in 1..Len(lines[L].positionedChunks) :
               chunks[lines[L].positionedChunks[m].chunk].furigana = <<>>)
              => LineGetHeight(lines[L]) = BasePartHeight(lines[L])
    /\ Len(lines) = 1 =>
         canvas.height = topPadding + bottomPadding + LineGetHeight(lines[1])

\* C9 witness: a page of two lines, one with annotations and one of chunks
\* without, under a supplied paddingBetweenLines
C9_Witness ==
  /\ pc = "done"
  /\ Len(lines) = 2
  /\ "paddingBetweenLinesInPixels" \in DOMAIN options
  /\ paddingBetweenLines = Px(2)
  /\ AnnotationPartHeight(lines[1]) > 0
  /\ lines[2].positionedChunks # <<>>
  /\ AnnotationPartHeight(lines[2]) = 0

\* C10 as stated: in the line assignment loop a new line is opened before a
\* chunk iff the chunk is wider than the current line's remaining width or its
\* pair's base text begins with a newline; the chunk is appended to the most
\* recently opened line, the other lines stay as they are, and no line's
\* remaining width grows.
C10_GreedyFirstFit ==
  [][pc = "assign" =>
       LET n == Len(lines)
           width == ChunkGetWidth(chunks[i])
           last == lines'[Len(lines')].positionedChunks
       IN  /\ Len(lines') \in {n, n + 1}
           /\ Len(lines') = n + 1
                <=> (width > lines[n].widthRemaining \/ BaseBeginsWithNewline(i))
           /\ last # <<>> /\ last[Len(last)].chunk = i
           /\ \A L \in 1..n :
                /\ L < Len(lines') => lines'[L] = lines[L]
                /\ lines'[L].widthRemaining <= lines[L].widthRemaining]_vars

-----------------------------------------------------------------------------
(* C11: the calls made to the drawing surface after the page was sized *)

\* the calls after the background was filled; measureText asks and draws nothing
DrawCalls ==
  LET k == CHOOSE n \in 1..Len(calls) : calls[n].op = "fillRect"
  IN  SelectSeq(SubSeq(calls, k + 1, Len(calls)),
                LAMBDA c : c.op \in {"fillText", "font"})

\* what a call draws and where along the line
Shape(c) ==
  IF c.op = "fillText"
  THEN [op |-> "fillText", font |-> "", text |-> c.text, x |-> c.x]
  ELSE [op |-> "font", font |-> c.font, text |-> <<>>, x |-> 0]

DrawShapes == [k \in 1..Len(DrawCalls) |-> Shape(DrawCalls[k])]

\* one annotation draw for every chunk of a line, in the line's order
AnnotationDrawsOfLine(line) ==
  [m \in 1..Len(line.positionedChunks) |->
     LET chunk == chunks[line.positionedChunks[m].chunk]
     IN  [op |-> "fillText", font |-> "", text |-> chunk.furigana,
          x |-> leftPadding
                + OccupiedWidth(SubSeq(line.positionedChunks, 1, m - 1))
                + chunk.furiganaXOffset]]

RECURSIVE AnnotationDraws(_)
AnnotationDraws(ls) ==
  IF ls = <<>> THEN <<>>
  ELSE AnnotationDrawsOfLine(Head(ls)) \o AnnotationDraws(Tail(ls))

RECURSIVE BaseStringOf(_)
BaseStringOf(chunkIndices) ==
  IF chunkIndices = <<>> THEN <<>>
  ELSE chunks[Head(chunkIndices)].kanji \o BaseStringOf(Tail(chunkIndices))

BaseDraws(ls) ==
  [L \in 1..Len(ls) |->
     [op |-> "fillText", font |-> "",
      text |-> BaseStringOf(LineChunks(<<ls[L]>>)), x |-> leftPadding]]

FontSwitch == [op |-> "font", font |-> kanjiFont, text |-> <<>>, x |-> 0]

\* C11 as stated: after the page was sized the drawing surface receives one
\* fillText per chunk with a non-empty annotation and none for a chunk with
\* an empty one, line by line, at leftPadding + the widths before it in its
\* line + its annotation offset; then one switch to the base font; then one
\* fillText per line with the line's concatenated base strings at leftPadding.
C11_DrawProtocol_Stated ==
  /\ pc = "drawKanji" =>
       DrawShapes = SelectSeq(AnnotationDraws(lines), LAMBDA c : c.text # <<>>)
  /\ pc \in {"toBuffer", "done"} =>
       DrawShapes = SelectSeq(AnnotationDraws(lines), LAMBDA c : c.text # <<>>)
                    \o <<FontSwitch>> \o BaseDraws(lines)

\* C11 as amended: after the page was sized the drawing surface receives one
\* fillText per chunk, with the empty string for a chunk with an empty
\* annotation, line by line, at leftPadding + the widths before it in its
\* line + its annotation offset; then one switch to the base font; then one
\* fillText per line with the line's concatenated base strings at leftPadding.
\* No annotation is drawn after the font switch and no base text before it.
C11_DrawProtocol ==
  /\ pc = "drawKanji" => DrawShapes = AnnotationDraws(lines)
  /\ pc \in {"toBuffer", "done"} =>
       DrawShapes = AnnotationDraws(lines) \o <<FontSwitch>> \o BaseDraws(lines)

\* a render of two lines where a chunk with an annotation follows a chunk
\* without one in its line
C11_Witness ==
  /\ pc = "done"
  /\ Len(lines) = 2
  /\ \E L \in 1..2 :
       /\ Len(lines[L].positionedChunks) = 2
       /\ chunks[lines[L].positionedChunks[1].chunk].furigana = <<>>
       /\ chunks[lines[L].positionedChunks[2].chunk].furigana # <<>>
       /\ chunks[lines[L].positionedChunks[2].chunk].furiganaXOffset > 0

-----------------------------------------------------------------------------
(* C12: where the base text of a line is drawn *)

\* the fillText calls after the switch to the base font, one per line
BaseCalls ==
  LET k == CHOOSE n \in 1..Len(DrawCalls) : DrawCalls[n].op = "font"
  IN  SubSeq(DrawCalls, k + 1, Len(DrawCalls))

\* the vertical offset a line is drawn at
RECURSIVE LineTop(_)
LineTop(L) ==
  IF L = 1 THEN topPadding
  ELSE LineTop(L - 1) + HeightOfLine(lines[L - 1]) + paddingBetweenLines

\* C12 as stated: for every line drawn at vertical offset y, the baseline
\* passed to fillText - y - the ascent of the line's base string equals the
\* line's height - its base part height, and the bottom of the base text
\* (baseline + descent) is not below y + the line's height.
C12_BaseTextGap ==
  pc \in {"toBuffer", "done"} =>
    \A L \in 1..Len(lines) :
      LET call == BaseCalls[L]
          metrics == MeasureText(kanjiFont, call.text)
      IN  /\ call.y - LineTop(L) - metrics.actualBoundingBoxAscent
               = HeightOfLine(lines[L]) - BasePartHeight(lines[L])
          /\ call.y + metrics.actualBoundingBoxDescent
               <= LineTop(L) + HeightOfLine(lines[L])

-----------------------------------------------------------------------------
(* C13: lines without chunks *)

NonEmptyLines == SelectSeq(lines, LAMBDA line : line.positionedChunks # <<>>)

\* C13 as stated: after the line assignment loop of an input with at least
\* one chunk every line holds at least one chunk, there are no more lines than
\* chunks, and the page height has paddingBetweenLines only between lines
\* that hold chunks.
C13_NoEmptyLine ==
  (Assigned /\ Len(chunks) >= 1) =>
    /\ \A L \in 1..Len(lines) : lines[L].positionedChunks # <<>>
    /\ Len(lines) <= Len(chunks)
    /\ Sized =>
         canvas.height = topPadding + bottomPadding
                         + SumOfLineHeights(NonEmptyLines)
                         + (Len(NonEmptyLines) - 1) * paddingBetweenLines

-----------------------------------------------------------------------------
(* C14: the options the layout uses *)

\* the caller's value of an option when it is supplied, the documented
\* default when it is omitted
Supplied(name, default) ==
  IF name \in DOMAIN options THEN options[name] ELSE default

\* C14 as stated: the layout uses every numeric option with the value the
\* caller supplied, 0 included, and with the documented default only when the
\* option is omitted: the lines' budget and their padding between furigana
\* and kanji, the page's width and height and the X of the base text are
\* those the supplied values give.
C14_OptionResolution ==
  /\ \A L \in 1..Len(lines) :
       /\ lines[L].maxWidth
            = Supplied("maxWidthInPixels", Px(1000))
              - Supplied("leftPaddingInPixels", Px(10))
              - Supplied("rightPaddingInPixels", Px(10))
       /\ lines[L].paddingBetweenFuriganaAndKanji
            = Supplied("paddingBetweenFuriganaAndKanjiInPixels", Px(3))
  /\ Sized =>
       /\ canvas.width
            = WidestLine(lines)
              + Supplied("leftPaddingInPixels", Px(10))
              + Supplied("rightPaddingInPixels", Px(10))
       /\ canvas.height
            = SumHeights(lines, Supplied("paddingBetweenLinesInPixels", Px(10)))
              - Supplied("paddingBetweenLinesInPixels", Px(10))
              + Supplied("topPaddingInPixels", Px(10))
              + Supplied("bottomPaddingInPixels", Px(10))
  /\ pc \in {"toBuffer", "done"} =>
       \A L \in 1..Len(lines) :
         BaseCalls[L].x = Supplied("leftPaddingInPixels", Px(10))

====
